---- MODULE Spec2Model ----
(***************************************************************************)
(* A model of the swarm engine of trim21/ve:                               *)
(*   - the peer session of internal/peer/peer.go (read loop, write loop,   *)
(*     cancel, response validation), checked under Spec with the frames of *)
(*     the request pipeline and under WireSpec with every frame;           *)
(*   - the client registry of internal/client/c.go (AddTorrent, the        *)
(*     connection semaphore), checked under ClientSpec;                    *)
(*   - Client.Shutdown and Client.saveSession running beside AddTorrent,   *)
(*     checked under ShutdownSpec.                                         *)
(* Each specification leaves the variables of the other parts at their     *)
(* initial values.                                                         *)
(***************************************************************************)
EXTENDS Integers, Sequences, FiniteSets, TLC

VARIABLES
    \* ---- peer session (internal/peer/peer.go, type Peer) ----
    skipHandshake,  \* the argument of start: TRUE for New, FALSE for NewIncoming
    InfoHash,       \* Peer.InfoHash, the expected info-hash
    h,              \* the result of p.Handshake() in start, NoHandshake before
    pcRead,         \* position of the goroutine running start (the read loop)
    pcWrite,        \* position of the goroutine spawned at line 137 (the write loop)
    ctxDone,        \* Peer.ctx is cancelled
    dead,           \* Peer.dead
    connClosed,     \* Peer.Conn.Close() has been called
    requests,       \* Peer.requests, the outstanding set
    Bitmap,         \* Peer.Bitmap
    Choked,         \* Peer.Choked
    Interested,     \* Peer.Interested
    reqChan,        \* Peer.reqChan, a channel of capacity ChanCap made by the owner
    resChan,        \* Peer.resChan, a channel of capacity ChanCap made by the owner
    rx,             \* the frame DecodeEvents has just read from Conn
    event,          \* the local variable event of the read loop
    wreq,           \* the local variable r of the write loop
    outbound,       \* the requests written to Conn by SendRequest
    cancelCalls,    \* how many times p.cancel has been invoked
    msgSeen,        \* history: the switch of the read loop has handled a message
    \* ---- client registry (internal/client/c.go, type Client) ----
    Config,         \* Client.Config.App.GlobalConnectionLimit
    sem,            \* Client.sem: [size, cur]
    connectionCount,\* live peer transport connections of the client
    downloadMap,    \* Client.downloadMap: info-hash -> task id
    downloads,      \* Client.downloads: sequence of tasks [id, hash]
    infoHashes,     \* Client.infoHashes
    mWriter,        \* Client.m: the caller holding the write lock, 0 if none
    mReaders,       \* Client.m: the callers holding a read lock
    pcAdd,          \* position of each caller inside AddTorrent
    argHash,        \* info.Hash of each caller's AddTorrent call
    retAdd,         \* what each caller's last AddTorrent returned
    poolSubmitted,  \* the tasks whose Init was handed to global.Pool.Submit
    ctxCancelled,   \* Client.ctx is cancelled (c.cancel was called)
    pcShutdown,     \* position of the goroutine calling Client.Shutdown
    pcSave,         \* position of the goroutine saveSession starts for each task
    dm,             \* Download.m of each task: who holds it
    resumeFiles     \* the tasks whose .resume file was written

peerVars == <<skipHandshake, InfoHash, h, pcRead, pcWrite, ctxDone, dead,
              connClosed, requests, Bitmap, Choked, Interested, reqChan,
              resChan, rx, event, wreq, outbound, cancelCalls, msgSeen>>

shutVars == <<ctxCancelled, pcShutdown, pcSave, dm, resumeFiles>>

clientVars == <<Config, sem, connectionCount, downloadMap, downloads,
                infoHashes, mWriter, mReaders, pcAdd, argHash, retAdd,
                poolSubmitted, shutVars>>

vars == <<peerVars, clientVars>>

(***************************************************************************)
(* Bounds of the model.                                                    *)
(***************************************************************************)
ChanCap == 1         \* capacity of reqChan and of resChan
MaxInflight == 1     \* requests the download task keeps in flight on a session
MaxCancel == 1       \* external invocations of p.cancel
MaxDownloads == 3    \* AddTorrent calls that get past the existence check

Pieces == {0, 1}            \* the piece indices of the torrent
pieceNum == Cardinality(Pieces)   \* newPeer's pieceNum
Begins == {0, 1}
Lengths == {0, 1}
Datas == {<<>>, <<7>>}
Hashes == {1, 2}            \* info-hashes torrents carry
WireHashes == {0} \cup Hashes  \* what a handshake may hold; 0 is the zero hash

(***************************************************************************)
(* proto.Message ids.                                                      *)
(***************************************************************************)
Choke == 0
Unchoke == 1
MsgInterested == 2
NotInterested == 3
Have == 4
Bitfield == 5
Request == 6
Piece == 7
Cancel == 8

(***************************************************************************)
(* req.Request, req.Response, Event and their zero values.                 *)
(***************************************************************************)
Requests == [PieceIndex : Pieces, Begin : Begins, Length : Lengths]

ZeroReq == [PieceIndex |-> 0, Begin |-> 0, Length |-> 0]

\* the requests the scheduler issues: blocks are not empty
BlockRequests == {r \in Requests : r.Length > 0}

ZeroRes == [PieceIndex |-> 0, Begin |-> 0, Data |-> <<>>]

ZeroEvent == [Event |-> 0, Index |-> 0, Bitmap |-> {}, Res |-> ZeroRes, Req |-> ZeroReq]

NoHandshake == [InfoHash |-> 0, err |-> FALSE, done |-> FALSE]

\* util.BitmapLen(pieceNum): bytes of a bitfield
BitmapLen == (pieceNum + 7) \div 8

(***************************************************************************)
(* Frames on the wire: l is the declared length, id the message id.        *)
(***************************************************************************)
Frame(l, id, index, begin, length, data, bits) ==
    [l |-> l, id |-> id, index |-> index, begin |-> begin, length |-> length,
     data |-> data, bits |-> bits]

NoFrame == Frame(-1, 0, 0, 0, 0, <<>>, {})

KeepAliveFrame == Frame(0, 0, 0, 0, 0, <<>>, {})

FlagFrames == {Frame(1, id, 0, 0, 0, <<>>, {}) : id \in {Choke, Unchoke, MsgInterested, NotInterested}}

HaveFrames == {Frame(5, Have, i, 0, 0, <<>>, {}) : i \in Pieces}

BitfieldFrames == {Frame(1 + BitmapLen, Bitfield, 0, 0, 0, <<>>, b) : b \in SUBSET Pieces}

RequestFrames == {Frame(13, Request, r.PieceIndex, r.Begin, r.Length, <<>>, {}) : r \in Requests}

PieceFrames == {Frame(9 + Len(d), Piece, i, b, 0, d, {}) : i \in Pieces, b \in Begins, d \in Datas}

OtherFrames == {Frame(13, Cancel, 0, 0, 0, <<>>, {})}

Frames == {KeepAliveFrame} \cup FlagFrames \cup HaveFrames \cup BitfieldFrames
          \cup RequestFrames \cup PieceFrames \cup OtherFrames

\* the frames of the request pipeline, with a keep-alive, an unchoke and the
\* have messages that announce pieces
PipelineFrames == {KeepAliveFrame, Frame(1, Unchoke, 0, 0, 0, <<>>, {})}
                  \cup HaveFrames \cup RequestFrames \cup PieceFrames \cup OtherFrames

\* the Response a piece frame carries, and the Request it answers
FrameRes(f) == [PieceIndex |-> f.index, Begin |-> f.begin, Data |-> f.data]

ImpliedReq(res) == [PieceIndex |-> res.PieceIndex, Begin |-> res.Begin, Length |-> Len(res.Data)]


(***************************************************************************)
(* Pure functions of the peer session.                                     *)
(***************************************************************************)
\* p.decodeHave(l): a have message is 1 id byte and a u32 index
decodeHave(f) ==
    IF f.l # 5 \/ f.index >= pieceNum
    THEN [evt |-> ZeroEvent, err |-> TRUE]
    ELSE [evt |-> [ZeroEvent EXCEPT !.Event = Have, !.Index = f.index], err |-> FALSE]

\* p.decodeBitfield(l): a bitfield message is 1 id byte and bitmapLen bytes
decodeBitfield(f) ==
    IF f.l # 1 + BitmapLen
    THEN [evt |-> ZeroEvent, err |-> TRUE]
    ELSE [evt |-> [ZeroEvent EXCEPT !.Event = Bitfield, !.Bitmap = f.bits], err |-> FALSE]

\* Peer.DecodeEvents on a frame read whole from Conn: the Event and whether
\* an error is returned.  Only bitfield and have are decoded; every other id
\* with a payload has the payload discarded and yields Event{Event: id}.
DecodeEvents(f) ==
    IF f.l = 0 THEN [evt |-> ZeroEvent, err |-> FALSE]
    ELSE IF f.id = Bitfield THEN decodeBitfield(f)
    ELSE IF f.id = Have THEN decodeHave(f)
    ELSE [evt |-> [ZeroEvent EXCEPT !.Event = f.id], err |-> FALSE]

\* bitmap.Bitmap.Xor
BitmapXor(a, b) == (a \ b) \cup (b \ a)

validateResKeep(reqs, res) ==
    [ok |-> ImpliedReq(res) \in reqs, requests |-> reqs]

\* Peer.validateRes: whether the implied request is outstanding, and the
\* outstanding set afterwards
validateRes(reqs, res) ==
    IF ImpliedReq(res) \in reqs
    THEN [ok |-> TRUE, requests |-> reqs \ {ImpliedReq(res)}]
    ELSE [ok |-> FALSE, requests |-> reqs]

PeerCancelToggle(st) == [dead |-> ~st.dead, ctxDone |-> TRUE]

\* p.cancel (newPeer, lines 46-49) on the pair (dead, ctx)
PeerCancel(st) == [dead |-> TRUE, ctxDone |-> TRUE]

\* the handshake start accepts: no check of err, only of the info-hash
HandshakeAccepted(hs, expected) == hs.InfoHash = expected

(***************************************************************************)
(* Initial states.                                                         *)
(***************************************************************************)
\* newPeer: a fresh session, its goroutine not yet scheduled
PeerInit ==
    /\ skipHandshake \in BOOLEAN
    /\ InfoHash = 1
    /\ h = NoHandshake
    /\ pcRead = "start"
    /\ pcWrite = "unspawned"
    /\ ctxDone = FALSE
    /\ dead = FALSE
    /\ connClosed = FALSE
    /\ requests = {}
    /\ Bitmap = {}
    /\ Choked = FALSE
    /\ Interested = FALSE
    /\ reqChan = <<>>
    /\ resChan = <<>>
    /\ rx = NoFrame
    /\ event = ZeroEvent
    /\ wreq = ZeroReq
    /\ outbound = {}
    /\ cancelCalls = 0
    /\ msgSeen = FALSE

(***************************************************************************)
(* The goroutine running start: handshake, then the read loop.             *)
(***************************************************************************)
\* start, lines 124-154, without a handshake (New): spawn the write loop
StartSkip ==
    /\ pcRead = "start"
    /\ skipHandshake
    /\ pcRead' = "top"
    /\ pcWrite' = "select"
    /\ UNCHANGED <<skipHandshake, InfoHash, h, ctxDone, dead, connClosed, requests,
                   Bitmap, Choked, Interested, reqChan, resChan, rx, event, wreq,
                   outbound, cancelCalls,
                   msgSeen, clientVars>>

\* start, lines 124-154, with a handshake (NewIncoming): err is ignored, a
\* different info-hash returns, anything else spawns the write loop
StartHandshake ==
    /\ pcRead = "start"
    /\ ~skipHandshake
    /\ \E ih \in WireHashes, e \in BOOLEAN :
          /\ h' = [InfoHash |-> ih, err |-> e, done |-> TRUE]
          /\ IF HandshakeAccepted(h', InfoHash)
             THEN pcRead' = "top" /\ pcWrite' = "select"
             ELSE pcRead' = "ret" /\ pcWrite' = pcWrite
    /\ UNCHANGED <<skipHandshake, InfoHash, ctxDone, dead, connClosed, requests,
                   Bitmap, Choked, Interested, reqChan, resChan, rx, event, wreq,
                   outbound, cancelCalls,
                   msgSeen, clientVars>>

\* lines 156-159: the top of the read loop looks at the context
LoopTop ==
    /\ pcRead = "top"
    /\ pcRead' = IF ctxDone THEN "ret" ELSE "read"
    /\ UNCHANGED <<skipHandshake, InfoHash, h, pcWrite, ctxDone, dead, connClosed,
                   requests, Bitmap, Choked, Interested, reqChan, resChan, rx, event,
                   wreq, outbound, cancelCalls,
                   msgSeen, clientVars>>

\* lines 160-168: DecodeEvents reads frame f, which the remote sent
Read(f) ==
    /\ pcRead = "read"
    /\ ~connClosed
    /\ rx' = f
    /\ IF DecodeEvents(f).err
       THEN /\ connClosed' = TRUE
            /\ pcRead' = "ret"
            /\ event' = ZeroEvent
       ELSE /\ connClosed' = connClosed
            /\ pcRead' = "dispatch"
            /\ event' = DecodeEvents(f).evt
    /\ UNCHANGED <<skipHandshake, InfoHash, h, pcWrite, ctxDone, dead, requests,
                   Bitmap, Choked, Interested, reqChan, resChan, wreq, outbound,
                   cancelCalls,
                   msgSeen, clientVars>>

\* the remote sends any frame of the catalogue
ReadFrame == \E f \in Frames : Read(f)

\* the remote sends a frame of the request pipeline, a keep-alive or an unchoke
ReadPipelineFrame == \E f \in PipelineFrames : Read(f)

\* lines 160-168: the read of Conn fails (remote close, reset)
ReadError ==
    /\ pcRead = "read"
    /\ connClosed' = TRUE
    /\ pcRead' = "ret"
    /\ UNCHANGED <<skipHandshake, InfoHash, h, pcWrite, ctxDone, dead, requests,
                   Bitmap, Choked, Interested, reqChan, resChan, rx, event, wreq,
                   outbound, cancelCalls,
                   msgSeen, clientVars>>

\* lines 170-182, 194: the cases of the switch that only update peer state
DispatchState ==
    /\ pcRead = "dispatch"
    /\ event.Event \notin {Piece, Request}
    /\ Bitmap' = CASE event.Event = Bitfield -> BitmapXor(Bitmap, event.Bitmap)
                   [] event.Event = Have -> Bitmap \cup {event.Index}
                   [] OTHER -> Bitmap
    /\ Interested' = CASE event.Event = MsgInterested -> TRUE
                       [] event.Event = NotInterested -> FALSE
                       [] OTHER -> Interested
    /\ Choked' = CASE event.Event = Choke -> TRUE
                   [] event.Event = Unchoke -> FALSE
                   [] OTHER -> Choked
    /\ pcRead' = "top"
    /\ rx' = NoFrame
    /\ msgSeen' = (msgSeen \/ rx.l > 0)
    /\ event' = ZeroEvent
    /\ UNCHANGED <<skipHandshake, InfoHash, h, pcWrite, ctxDone, dead, connClosed,
                   requests, reqChan, resChan, wreq, outbound, cancelCalls,
                   clientVars>>

\* lines 183-188: case proto.Piece, up to the send on resChan
DispatchPiece ==
    /\ pcRead = "dispatch"
    /\ event.Event = Piece
    /\ requests' = validateRes(requests, event.Res).requests
    /\ IF validateRes(requests, event.Res).ok
       THEN pcRead' = "sendRes" /\ connClosed' = connClosed /\ event' = event
       ELSE pcRead' = "ret" /\ connClosed' = TRUE /\ event' = ZeroEvent
    /\ rx' = NoFrame
    /\ msgSeen' = (msgSeen \/ rx.l > 0)
    /\ UNCHANGED <<skipHandshake, InfoHash, h, pcWrite, ctxDone, dead, Bitmap,
                   Choked, Interested, reqChan, resChan, wreq, outbound, cancelCalls,
                   clientVars>>

\* line 189: p.resChan <- event.Res
SendRes ==
    /\ pcRead = "sendRes"
    /\ Len(resChan) < ChanCap
    /\ resChan' = Append(resChan, event.Res)
    /\ pcRead' = "top"
    /\ event' = ZeroEvent
    /\ UNCHANGED <<skipHandshake, InfoHash, h, pcWrite, ctxDone, dead, connClosed,
                   requests, Bitmap, Choked, Interested, reqChan, rx, wreq, outbound,
                   cancelCalls,
                   msgSeen, clientVars>>

\* line 190: case proto.Request, up to the send on reqChan
DispatchRequest ==
    /\ pcRead = "dispatch"
    /\ event.Event = Request
    /\ pcRead' = "sendReq"
    /\ rx' = NoFrame
    /\ msgSeen' = (msgSeen \/ rx.l > 0)
    /\ UNCHANGED <<skipHandshake, InfoHash, h, pcWrite, ctxDone, dead, connClosed,
                   requests, Bitmap, Choked, Interested, reqChan, resChan, event, wreq,
                   outbound, cancelCalls,
                   clientVars>>

\* line 191: p.reqChan <- event.Req
SendReq ==
    /\ pcRead = "sendReq"
    /\ Len(reqChan) < ChanCap
    /\ reqChan' = Append(reqChan, event.Req)
    /\ pcRead' = "top"
    /\ event' = ZeroEvent
    /\ UNCHANGED <<skipHandshake, InfoHash, h, pcWrite, ctxDone, dead, connClosed,
                   requests, Bitmap, Choked, Interested, resChan, rx, wreq, outbound,
                   cancelCalls,
                   msgSeen, clientVars>>

\* line 125: the deferred p.cancel() runs when start returns
DeferCancel ==
    /\ pcRead = "ret"
    /\ dead' = PeerCancel([dead |-> dead, ctxDone |-> ctxDone]).dead
    /\ ctxDone' = PeerCancel([dead |-> dead, ctxDone |-> ctxDone]).ctxDone
    /\ cancelCalls' = cancelCalls + 1
    /\ pcRead' = "done"
    /\ UNCHANGED <<skipHandshake, InfoHash, h, pcWrite, connClosed, requests, Bitmap,
                   Choked, Interested, reqChan, resChan, rx, event, wreq, outbound,
                   msgSeen, clientVars>>

(***************************************************************************)
(* The write loop, lines 137-154.                                          *)
(***************************************************************************)
\* case <-p.ctx.Done(): return
WriteCtxDone ==
    /\ pcWrite = "select"
    /\ ctxDone
    /\ pcWrite' = "done"
    /\ UNCHANGED <<skipHandshake, InfoHash, h, pcRead, ctxDone, dead, connClosed,
                   requests, Bitmap, Choked, Interested, reqChan, resChan, rx, event,
                   wreq, outbound, cancelCalls,
                   msgSeen, clientVars>>

\* case r := <-p.reqChan
WriteRecv ==
    /\ pcWrite = "select"
    /\ reqChan # <<>>
    /\ wreq' = Head(reqChan)
    /\ reqChan' = Tail(reqChan)
    /\ pcWrite' = "store"
    /\ UNCHANGED <<skipHandshake, InfoHash, h, pcRead, ctxDone, dead, connClosed,
                   requests, Bitmap, Choked, Interested, resChan, rx, event, outbound,
                   cancelCalls,
                   msgSeen, clientVars>>

WriteStoreSkip ==
    /\ pcWrite = "store"
    /\ pcWrite' = "send"
    /\ UNCHANGED <<skipHandshake, InfoHash, h, pcRead, ctxDone, dead, connClosed,
                   requests, Bitmap, Choked, Interested, reqChan, resChan, rx, event,
                   wreq, outbound, cancelCalls,
                   msgSeen, clientVars>>

\* line 143: p.requests.Store(r, empty.Empty{})
WriteStore ==
    /\ pcWrite = "store"
    /\ requests' = requests \cup {wreq}
    /\ pcWrite' = "send"
    /\ UNCHANGED <<skipHandshake, InfoHash, h, pcRead, ctxDone, dead, connClosed,
                   Bitmap, Choked, Interested, reqChan, resChan, rx, event, wreq,
                   outbound, cancelCalls,
                   msgSeen, clientVars>>

\* lines 144-151 and sendEvent: SendRequest writes r to Conn
WriteSend ==
    /\ pcWrite = "send"
    /\ ~connClosed
    /\ outbound' = outbound \cup {wreq}
    /\ pcWrite' = "select"
    /\ wreq' = ZeroReq
    /\ UNCHANGED <<skipHandshake, InfoHash, h, pcRead, ctxDone, dead, connClosed,
                   requests, Bitmap, Choked, Interested, reqChan, resChan, rx, event,
                   cancelCalls,
                   msgSeen, clientVars>>

\* lines 144-151: SendRequest fails (Conn closed or broken); the loop returns
WriteSendError ==
    /\ pcWrite = "send"
    /\ pcWrite' = "done"
    /\ wreq' = ZeroReq
    /\ UNCHANGED <<skipHandshake, InfoHash, h, pcRead, ctxDone, dead, connClosed,
                   requests, Bitmap, Choked, Interested, reqChan, resChan, rx, event,
                   outbound, cancelCalls,
                   msgSeen, clientVars>>

(***************************************************************************)
(* The owner of the session: the download task.                            *)
(***************************************************************************)
\* p.cancel() invoked from outside the session
ExternalCancel ==
    /\ cancelCalls < MaxCancel
    /\ dead' = PeerCancel([dead |-> dead, ctxDone |-> ctxDone]).dead
    /\ ctxDone' = PeerCancel([dead |-> dead, ctxDone |-> ctxDone]).ctxDone
    /\ cancelCalls' = cancelCalls + 1
    /\ UNCHANGED <<skipHandshake, InfoHash, h, pcRead, pcWrite, connClosed, requests,
                   Bitmap, Choked, Interested, reqChan, resChan, rx, event, wreq,
                   outbound,
                   msgSeen, clientVars>>

\* submit_request: the download task enqueues an outbound request; its
\* scheduler serves an unchoked peer and picks a piece of the remote bitmap
SubmitRequest ==
    /\ ~Choked
    /\ Len(reqChan) < ChanCap
    /\ Cardinality(requests) + Len(reqChan)
         + (IF pcWrite \in {"store", "send"} THEN 1 ELSE 0) < MaxInflight
    /\ \E r \in BlockRequests :
          /\ r.PieceIndex \in Bitmap
          /\ reqChan' = Append(reqChan, r)
    /\ UNCHANGED <<skipHandshake, InfoHash, h, pcRead, pcWrite, ctxDone, dead,
                   connClosed, requests, Bitmap, Choked, Interested, resChan, rx,
                   event, wreq, outbound, cancelCalls,
                   msgSeen, clientVars>>

\* the download task takes a Response from its response channel
DownloadRecv ==
    /\ resChan # <<>>
    /\ resChan' = Tail(resChan)
    /\ UNCHANGED <<skipHandshake, InfoHash, h, pcRead, pcWrite, ctxDone, dead,
                   connClosed, requests, Bitmap, Choked, Interested, reqChan, rx,
                   event, wreq, outbound, cancelCalls,
                   msgSeen, clientVars>>

(***************************************************************************)
(* The client registry, internal/client/c.go.                              *)
(***************************************************************************)
SemWeight == 50                      \* semaphore.NewWeighted(50), c.go line 59
DefaultGlobalConnectionLimit == 50   \* LoadFromFile's default, config.go line 30
LowGlobalConnectionLimit == 2        \* a global-connections-limit a config file sets

Callers == {1, 2}                    \* goroutines calling into the client
ShutdownCaller == 3                  \* the goroutine calling Client.Shutdown
TaskIds == 1 .. MaxDownloads         \* ids of the download tasks

\* client.New after LoadFromFile with limit as global-connections-limit:
\* the semaphore's size does not depend on cfg
New(limit) ==
    /\ Config = [GlobalConnectionLimit |-> limit]
    /\ sem = [size |-> SemWeight, cur |-> 0]
    /\ connectionCount = 0
    /\ downloadMap = [x \in Hashes |-> 0]
    /\ downloads = << >>
    /\ infoHashes = {}
    /\ mWriter = 0
    /\ mReaders = {}
    /\ pcAdd = [c \in Callers |-> "idle"]
    /\ argHash = [c \in Callers |-> 0]
    /\ retAdd = [c \in Callers |-> "none"]
    /\ poolSubmitted = << >>
    /\ ctxCancelled = FALSE
    /\ pcShutdown = "idle"
    /\ pcSave = [i \in TaskIds |-> "none"]
    /\ dm = [i \in TaskIds |-> "free"]
    /\ resumeFiles = {}

\* a caller enters AddTorrent with info.Hash = x
AddTorrentCall(c, x) ==
    /\ pcAdd[c] = "idle"
    /\ Len(downloads) + Cardinality({d \in Callers : pcAdd[d] # "idle"}) < MaxDownloads
    /\ pcAdd' = [pcAdd EXCEPT ![c] = "rlock"]
    /\ argHash' = [argHash EXCEPT ![c] = x]
    /\ retAdd' = [retAdd EXCEPT ![c] = "none"]
    /\ UNCHANGED <<Config, sem, connectionCount, downloadMap, downloads, infoHashes,
                   mWriter, mReaders, poolSubmitted, peerVars, shutVars>>

\* line 99: c.m.RLock()
AddTorrentRLock(c) ==
    /\ pcAdd[c] = "rlock"
    /\ mWriter = 0
    /\ mReaders' = mReaders \cup {c}
    /\ pcAdd' = [pcAdd EXCEPT ![c] = "check"]
    /\ UNCHANGED <<Config, sem, connectionCount, downloadMap, downloads, infoHashes,
                   mWriter, argHash, retAdd, poolSubmitted, peerVars, shutVars>>

AddTorrentCheckMiss(c) ==
    /\ pcAdd[c] = "check"
    /\ mReaders' = mReaders \ {c}
    /\ pcAdd' = [pcAdd EXCEPT ![c] = "lock"]
    /\ UNCHANGED <<Config, sem, connectionCount, downloadMap, downloads, infoHashes,
                   mWriter, argHash, retAdd, poolSubmitted, peerVars, shutVars>>

\* lines 100-104: the existence check, then RUnlock on either branch
AddTorrentCheck(c) ==
    /\ pcAdd[c] = "check"
    /\ mReaders' = mReaders \ {c}
    /\ IF downloadMap[argHash[c]] # 0
       THEN /\ pcAdd' = [pcAdd EXCEPT ![c] = "idle"]
            /\ retAdd' = [retAdd EXCEPT ![c] = "exists"]
       ELSE /\ pcAdd' = [pcAdd EXCEPT ![c] = "lock"]
            /\ retAdd' = retAdd
    /\ UNCHANGED <<Config, sem, connectionCount, downloadMap, downloads, infoHashes,
                   mWriter, argHash, poolSubmitted, peerVars, shutVars>>

\* line 106: c.m.Lock()
AddTorrentLock(c) ==
    /\ pcAdd[c] = "lock"
    /\ mWriter = 0
    /\ mReaders = {}
    /\ mWriter' = c
    /\ pcAdd' = [pcAdd EXCEPT ![c] = "insert"]
    /\ UNCHANGED <<Config, sem, connectionCount, downloadMap, downloads, infoHashes,
                   mReaders, argHash, retAdd, poolSubmitted, peerVars, shutVars>>

\* lines 109-117: NewDownload, the three registry updates, Pool.Submit(d.Init),
\* return nil and the deferred Unlock; there is no second existence check
AddTorrentInsert(c) ==
    /\ pcAdd[c] = "insert"
    /\ LET d == [id |-> Len(downloads) + 1, hash |-> argHash[c]] IN
          /\ downloads' = Append(downloads, d)
          /\ downloadMap' = [downloadMap EXCEPT ![d.hash] = d.id]
          /\ infoHashes' = {x \in Hashes : downloadMap'[x] # 0}
          /\ poolSubmitted' = Append(poolSubmitted, d.id)
    /\ mWriter' = 0
    /\ pcAdd' = [pcAdd EXCEPT ![c] = "idle"]
    /\ retAdd' = [retAdd EXCEPT ![c] = "nil"]
    /\ UNCHANGED <<Config, sem, connectionCount, mReaders, argHash, peerVars, shutVars>>

\* accept(conn, addr): a permit by a non-blocking try, then the lookup of the
\* download task by the info-hash of the handshake; a session is attached
Accept(x) ==
    /\ sem.cur < sem.size
    /\ downloadMap[x] # 0
    /\ sem' = [sem EXCEPT !.cur = sem.cur + 1]
    /\ connectionCount' = connectionCount + 1
    /\ UNCHANGED <<Config, downloadMap, downloads, infoHashes, mWriter, mReaders,
                   pcAdd, argHash, retAdd, poolSubmitted, peerVars, shutVars>>

\* accept(conn, addr) at the cap, or for an unknown info-hash: the connection
\* is closed and nothing is kept
AcceptReject(x) ==
    /\ sem.cur >= sem.size \/ downloadMap[x] = 0
    /\ UNCHANGED <<clientVars, peerVars>>

\* an outbound dial waits for a permit, then attaches a session
Dial(x) ==
    /\ sem.cur < sem.size
    /\ downloadMap[x] # 0
    /\ sem' = [sem EXCEPT !.cur = sem.cur + 1]
    /\ connectionCount' = connectionCount + 1
    /\ UNCHANGED <<Config, downloadMap, downloads, infoHashes, mWriter, mReaders,
                   pcAdd, argHash, retAdd, poolSubmitted, peerVars, shutVars>>

\* a peer session ends: its permit is released
ConnClose ==
    /\ connectionCount > 0
    /\ sem' = [sem EXCEPT !.cur = sem.cur - 1]
    /\ connectionCount' = connectionCount - 1
    /\ UNCHANGED <<Config, downloadMap, downloads, infoHashes, mWriter, mReaders,
                   pcAdd, argHash, retAdd, poolSubmitted, peerVars, shutVars>>

(***************************************************************************)
(* Client.Shutdown and Client.saveSession, with the other users of a       *)
(* task's mutex.                                                           *)
(***************************************************************************)
\* NewDownload, d.go line 90: the context a task's ctx is derived from
NewDownloadCtxParent == "Background"

\* the ctx of task i is cancelled: by its parent, or by d.cancel, which no
\* step of the client calls
DownloadCtxDone(i) == NewDownloadCtxParent = "Client" /\ ctxCancelled

shutAddVars == <<Config, sem, connectionCount, downloadMap, downloads, infoHashes,
                 mReaders, pcAdd, argHash, retAdd, poolSubmitted>>

\* a goroutine calls Client.Shutdown
ShutdownCall ==
    /\ pcShutdown = "idle"
    /\ pcShutdown' = "lock"
    /\ UNCHANGED <<shutAddVars, mWriter, ctxCancelled, pcSave, dm, resumeFiles, peerVars>>

\* part_000 line 16: c.m.Lock()
ShutdownLock ==
    /\ pcShutdown = "lock"
    /\ mWriter = 0
    /\ mReaders = {}
    /\ mWriter' = ShutdownCaller
    /\ pcShutdown' = "save"
    /\ UNCHANGED <<shutAddVars, ctxCancelled, pcSave, dm, resumeFiles, peerVars>>

\* saveSession, lines 25-43: one goroutine per task of c.downloads, then
\* line 45, w.WaitAndRecover()
SaveSessionSpawn ==
    /\ pcShutdown = "save"
    /\ pcSave' = [i \in TaskIds |-> IF i <= Len(downloads) THEN "lock" ELSE pcSave[i]]
    /\ pcShutdown' = "wait"
    /\ UNCHANGED <<shutAddVars, mWriter, ctxCancelled, dm, resumeFiles, peerVars>>

\* saveSession, line 29: d.m.Lock() in the goroutine of task i
SaveLock(i) ==
    /\ pcSave[i] = "lock"
    /\ dm[i] = "free"
    /\ dm' = [dm EXCEPT ![i] = "save"]
    /\ pcSave' = [pcSave EXCEPT ![i] = "write"]
    /\ UNCHANGED <<shutAddVars, mWriter, ctxCancelled, pcShutdown, resumeFiles, peerVars>>

\* saveSession, lines 32-41 and the deferred Unlock: MarshalBinary and
\* os.WriteFile, either of which may fail
SaveWrite(i) ==
    /\ pcSave[i] = "write"
    /\ \E ok \in BOOLEAN : resumeFiles' = IF ok THEN resumeFiles \cup {i} ELSE resumeFiles
    /\ dm' = [dm EXCEPT ![i] = "free"]
    /\ pcSave' = [pcSave EXCEPT ![i] = "done"]
    /\ UNCHANGED <<shutAddVars, mWriter, ctxCancelled, pcShutdown, peerVars>>

\* saveSession, line 45: WaitAndRecover returns once every goroutine is done
ShutdownWait ==
    /\ pcShutdown = "wait"
    /\ \A i \in 1 .. Len(downloads) : pcSave[i] = "done"
    /\ pcShutdown' = "cancel"
    /\ UNCHANGED <<shutAddVars, mWriter, ctxCancelled, pcSave, dm, resumeFiles, peerVars>>

\* Shutdown, lines 21-22: c.cancel(), then the deferred c.m.Unlock()
ShutdownCancel ==
    /\ pcShutdown = "cancel"
    /\ ctxCancelled' = TRUE
    /\ mWriter' = 0
    /\ pcShutdown' = "done"
    /\ UNCHANGED <<shutAddVars, pcSave, dm, resumeFiles, peerVars>>

\* d.go lines 162-167, setError: another goroutine takes d.m of task i
DownloadLock(i) ==
    /\ i <= Len(downloads)
    /\ dm[i] = "free"
    /\ dm' = [dm EXCEPT ![i] = "task"]
    /\ UNCHANGED <<shutAddVars, mWriter, ctxCancelled, pcShutdown, pcSave, resumeFiles,
                   peerVars>>

\* d.go line 166: d.m.Unlock()
DownloadUnlock(i) ==
    /\ dm[i] = "task"
    /\ dm' = [dm EXCEPT ![i] = "free"]
    /\ UNCHANGED <<shutAddVars, mWriter, ctxCancelled, pcShutdown, pcSave, resumeFiles,
                   peerVars>>

\* a session that is constructed and not yet scheduled
PeerIdle == PeerInit /\ skipHandshake

Init == PeerInit /\ New(DefaultGlobalConnectionLimit)

Next ==
    \/ StartSkip \/ StartHandshake \/ LoopTop \/ ReadPipelineFrame \/ ReadError
    \/ DispatchState \/ DispatchPiece \/ SendRes \/ DispatchRequest \/ SendReq
    \/ DeferCancel
    \/ WriteCtxDone \/ WriteRecv \/ WriteStore \/ WriteSend \/ WriteSendError
    \/ ExternalCancel \/ SubmitRequest \/ DownloadRecv

Spec == Init /\ [][Next]_vars

\* the session with every frame of the catalogue on the wire
WireNext ==
    \/ StartSkip \/ StartHandshake \/ LoopTop \/ ReadFrame \/ ReadError
    \/ DispatchState \/ DispatchPiece \/ SendRes \/ DispatchRequest \/ SendReq
    \/ DeferCancel
    \/ WriteCtxDone \/ WriteRecv \/ WriteStore \/ WriteSend \/ WriteSendError
    \/ ExternalCancel \/ SubmitRequest \/ DownloadRecv

WireSpec == Init /\ [][WireNext]_vars

ClientInit ==
    /\ PeerIdle
    /\ \E limit \in {LowGlobalConnectionLimit, DefaultGlobalConnectionLimit} : New(limit)

ClientNext ==
    \/ \E c \in Callers, x \in Hashes : AddTorrentCall(c, x)
    \/ \E c \in Callers : AddTorrentRLock(c)
    \/ \E c \in Callers : AddTorrentCheck(c)
    \/ \E c \in Callers : AddTorrentLock(c)
    \/ \E c \in Callers : AddTorrentInsert(c)
    \/ \E x \in Hashes : Accept(x)
    \/ \E x \in Hashes : AcceptReject(x)
    \/ \E x \in Hashes : Dial(x)
    \/ ConnClose

ClientSpec == ClientInit /\ [][ClientNext]_vars

\* the registry with AddTorrent and Shutdown running concurrently
ShutdownNext ==
    \/ \E c \in Callers, x \in Hashes : AddTorrentCall(c, x)
    \/ \E c \in Callers : AddTorrentRLock(c)
    \/ \E c \in Callers : AddTorrentCheck(c)
    \/ \E c \in Callers : AddTorrentLock(c)
    \/ \E c \in Callers : AddTorrentInsert(c)
    \/ ShutdownCall \/ ShutdownLock \/ SaveSessionSpawn
    \/ \E i \in TaskIds : SaveLock(i)
    \/ \E i \in TaskIds : SaveWrite(i)
    \/ ShutdownWait \/ ShutdownCancel
    \/ \E i \in TaskIds : DownloadLock(i)
    \/ \E i \in TaskIds : DownloadUnlock(i)

ShutdownSpec == ClientInit /\ [][ShutdownNext]_vars

(***************************************************************************)
(* Properties.                                                             *)
(***************************************************************************)
\* the task with id i
TaskHash(i) == downloads[i].hash

\* the handshake exchange of this session completed with the expected info-hash
HandshakeCompleted == h.done /\ ~h.err /\ h.InfoHash = InfoHash

\* the read loop takes its step out of the switch
LeavesDispatch == pcRead = "dispatch" /\ pcRead' # "dispatch"

\* C1: at most one download task per info-hash: the downloads list holds no
\* two tasks with the same info-hash and Init is submitted for at most one
\* task of each info-hash (downloadMap holds one task per key by construction).
C1_OneTaskPerInfoHash ==
    /\ \A i, j \in 1 .. Len(downloads) :
          i # j => downloads[i].hash # downloads[j].hash
    /\ \A x \in Hashes :
          Cardinality({k \in 1 .. Len(poolSubmitted) : TaskHash(poolSubmitted[k]) = x}) <= 1

C3_MatchingPieceIsAccepted ==
    [][ (LeavesDispatch /\ rx.id = Piece /\ ImpliedReq(FrameRes(rx)) \in requests
           /\ ImpliedReq(FrameRes(rx)) \in outbound /\ ~dead /\ ~connClosed)
        => /\ ImpliedReq(FrameRes(rx)) \notin requests'
           /\ pcRead' = "sendRes"
           /\ event'.Res = FrameRes(rx)
           /\ ~connClosed'
           /\ ~dead'
      ]_vars

\* C4: a piece frame whose implied Request is not outstanding terminates the
\* session: the transport is closed, start returns and no Response is handed on.
C4_UnsolicitedPieceTerminates ==
    [][ (LeavesDispatch /\ rx.id = Piece /\ ImpliedReq(FrameRes(rx)) \notin requests)
        => /\ connClosed'
           /\ pcRead' = "ret"
           /\ resChan' = resChan
      ]_vars

\* C5: after a handshake that returned an error or another info-hash the
\* session terminates: neither loop runs, no peer state changes, and once
\* start has returned dead is true and the transport is closed.
C5_HandshakeFailureTerminates ==
    (h.done /\ (h.err \/ h.InfoHash # InfoHash))
    => /\ pcRead \in {"ret", "done"}
       /\ pcWrite = "unspawned"
       /\ rx = NoFrame /\ outbound = {}
       /\ requests = {} /\ Bitmap = {} /\ ~Choked /\ ~Interested
       /\ (pcRead = "done" => dead /\ connClosed)

\* C6: no frame is read and no request is written on a session, initiator or
\* acceptor, before its handshake completed with the expected info-hash.
C6_NoTrafficBeforeHandshake ==
    (rx # NoFrame \/ pcRead \in {"read", "dispatch", "sendRes", "sendReq"} \/ outbound # {})
    => HandshakeCompleted

\* C7: once cancel() has been invoked dead is true and the transport is closed.
C7_CancelTearsDown ==
    cancelCalls > 0 => dead /\ connClosed

\* C8: cancel() is idempotent and dead is monotone: every invocation leaves
\* dead and the context cancelled, an invocation after the first changes
\* nothing observable (dead, context, transport), and dead never goes back
\* to false.
C8_CancelIdempotent ==
    [][ /\ dead => dead'
        /\ (cancelCalls' > cancelCalls) => (dead' /\ ctxDone')
        /\ (cancelCalls' > cancelCalls /\ cancelCalls >= 1) =>
              /\ dead /\ ctxDone
              /\ dead' = dead /\ ctxDone' = ctxDone /\ connClosed' = connClosed
      ]_vars

\* C8's case: cancel() has been invoked twice on the session
C8_Witness == cancelCalls >= 2 /\ dead /\ ctxDone

\* C9: a session whose loops have returned is fully torn down: dead is true
\* and the transport is closed.
C9_NeverHalfAlive ==
    (pcRead = "done" /\ pcWrite \in {"unspawned", "done"}) => (dead /\ connClosed)

\* C10: the live connections never exceed the configured
\* global-connections-limit: every live connection holds a permit of the
\* semaphore, whose size is the configured limit.
C10_ConnectionsWithinConfiguredCap ==
    /\ connectionCount <= Config.GlobalConnectionLimit
    /\ connectionCount <= sem.cur
    /\ sem.size = Config.GlobalConnectionLimit

\* C13: a received bitfield replaces the remote bitmap: after the bitfield
\* case of the switch Bitmap is exactly the set of pieces whose bit is set in
\* the message, whatever Bitmap held before.
C13_BitfieldReplacesBitmap ==
    [][ (LeavesDispatch /\ rx.id = Bitfield) => Bitmap' = rx.bits ]_vars

\* C14: a bitfield received after another post-handshake message has been
\* handled is a protocol violation: the transport is closed, start returns
\* and Bitmap is left as it was.
C14_LateBitfieldIsViolation ==
    [][ (LeavesDispatch /\ rx.id = Bitfield /\ msgSeen)
        => /\ connClosed'
           /\ pcRead' = "ret"
           /\ Bitmap' = Bitmap
      ]_vars

\* C15: a frame of length 0 is a keep-alive without effect: handling it leaves
\* Choked, Interested, Bitmap and the outstanding set unchanged and the
\* session alive, back at the top of the read loop.
C15_KeepAliveHasNoEffect ==
    [][ (LeavesDispatch /\ rx.l = 0)
        => /\ Choked' = Choked
           /\ Interested' = Interested
           /\ Bitmap' = Bitmap
           /\ requests' = requests
           /\ pcRead' = "top"
           /\ connClosed' = connClosed
           /\ dead' = dead
      ]_vars

\* C16: a session is choked by the remote from its creation, and Choked goes
\* from true to false only when the switch handles an unchoke message.
C16_ChokedUntilUnchoke ==
    /\ Choked = TRUE
    /\ [][ (Choked /\ ~Choked') => (pcRead = "dispatch" /\ rx.l > 0 /\ rx.id = Unchoke) ]_vars

\* C17: every Request the write loop records in the outstanding set and
\* writes to the remote is for a piece that is in Bitmap at that moment.
C17_OutstandingPieceWasAnnounced ==
    [][ /\ (pcWrite = "store" /\ pcWrite' = "send") => wreq.PieceIndex \in Bitmap
        /\ (pcWrite = "send" /\ pcWrite' = "select") => wreq.PieceIndex \in Bitmap
      ]_vars

\* C18: a submitted Request is recorded in the outstanding set before it is
\* written: the write loop reaches the write only through the store of the
\* same Request, only the write loop writes requests, and at the write a
\* Request of the download task is in the outstanding set.
C18_RecordedBeforeWritten ==
    [][ /\ (pcWrite # "send" /\ pcWrite' = "send") =>
              /\ pcWrite = "store"
              /\ wreq' = wreq
              /\ wreq \in requests'
        /\ (outbound' # outbound) =>
              /\ pcWrite = "send"
              /\ outbound' = outbound \cup {wreq}
              /\ wreq \in BlockRequests => wreq \in requests
      ]_vars

\* C18's case: a Request of the download task was written to the remote
C18_Witness == \E r \in outbound \cap BlockRequests : r \in requests

\* C19: a request message of the remote is only forwarded: the Requests in
\* the outstanding set and the Requests written to the remote are Requests
\* the download task submitted, never one the remote sent.
C19_InboundRequestOnlyForwarded ==
    [][ /\ requests' \subseteq requests \cup BlockRequests
        /\ outbound' \subseteq outbound \cup BlockRequests
      ]_vars

\* C11: after Shutdown has returned the context of every download task that
\* was registered when Shutdown ran (the tasks saveSession went over) is
\* cancelled.
C11_ShutdownCancelsEveryTask ==
    pcShutdown = "done" =>
        \A i \in 1 .. Len(downloads) : pcSave[i] # "none" => DownloadCtxDone(i)

\* C12: an AddTorrent whose info-hash is registered returns the error of the
\* existence check and changes nothing: downloadMap, downloads, infoHashes
\* and the submissions to the pool are as before, and no task is constructed.
C12_DuplicateAddTorrentRejected ==
    [][ \A c \in Callers :
          (pcAdd[c] = "check" /\ pcAdd'[c] # "check" /\ downloadMap[argHash[c]] # 0)
          => /\ pcAdd'[c] = "idle"
             /\ retAdd'[c] = "exists"
             /\ UNCHANGED <<downloadMap, downloads, infoHashes, poolSubmitted>>
      ]_vars

\* C12's case: an AddTorrent returned the error for a registered info-hash
C12_Witness ==
    \E c \in Callers : retAdd[c] = "exists" /\ pcAdd[c] = "idle" /\ downloadMap[argHash[c]] # 0

\* C20: a goroutine that holds Client.m is not blocked: while Shutdown holds
\* the lock it does not wait for other goroutines, for a task's mutex or for
\* file I/O.
C20_NoBlockingUnderRegistryLock ==
    mWriter = ShutdownCaller =>
        ~(pcShutdown = "wait" /\ \E i \in 1 .. Len(downloads) : pcSave[i] # "done")

====
